---- MODULE Spec2Model ----
(***************************************************************************)
(* Model of keyvault_client.py: the AzureKeyVaultClient facade (endpoint   *)
(* resolution, TLS trust classification, get/set/list/get-multiple) and    *)
(* the command-line dispatcher main().                                     *)
(*                                                                         *)
(* Text the code inspects character by character (URLs, host names, the    *)
(* DISABLE_SSL_VERIFY toggle, the command word) is a sequence of           *)
(* one-character strings.  Secret names and values, which the code only    *)
(* passes along, are plain strings.                                        *)
(***************************************************************************)
EXTENDS Integers, Sequences, FiniteSets, TLC

\* ------------------------------------------------------------------ bounds
\* Longest list of arguments after the command word on the command line.
MaxArgs == 2
\* Longest list of names a library caller hands to get_multiple_secrets.
MaxNames == 1
\* Number of facade operations a library caller performs on one client.
MaxOps == 2
\* Number of writes other clients of the same vault perform during a run.
MaxExt == 1

\* ------------------------------------------------------------ Python values
\* None where a str of inspected text is expected (getenv of an unset key,
\* the default vault_url argument, urlparse(...).hostname without a netloc).
NoneS == <<"<None>">>
\* None where a secret value is expected.
None == "<None>"

\* Python truthiness of an Optional[str] of inspected text.
TruthyS(s) == s # NoneS /\ s # <<>>
\* Python truthiness of an Optional[str] secret value.
Truthy(v) == v # None /\ v # ""

\* ----------------------------------------------------------------- literals
S_true == <<"t", "r", "u", "e">>
S_TRUE == <<"T", "R", "U", "E">>
S_True == <<"T", "r", "u", "e">>
S_false == <<"f", "a", "l", "s", "e">>
S_one == <<"1">>
S_slash == <<"/">>
P_10 == <<"1", "0", ".">>
P_192_168 == <<"1", "9", "2", ".", "1", "6", "8", ".">>
P_172 == <<"1", "7", "2", ".">>
H_localhost == <<"l", "o", "c", "a", "l", "h", "o", "s", "t">>
H_loopback == <<"1", "2", "7", ".", "0", ".", "0", ".", "1">>
Suffix_azure_net == <<".", "a", "z", "u", "r", "e", ".", "n", "e", "t">>
H_myvault == <<"m", "y", "v", "a", "u", "l", "t", ".", "v", "a", "u", "l", "t", ".", "a", "z", "u", "r", "e", ".", "n", "e", "t">>
C_test == <<"t", "e", "s", "t">>
C_get == <<"g", "e", "t">>
C_set == <<"s", "e", "t">>
C_list == <<"l", "i", "s", "t">>
C_get_multiple == <<"g", "e", "t", "-", "m", "u", "l", "t", "i", "p", "l", "e">>

\* ------------------------------------------------------------ input domains
URL_Public == <<"h", "t", "t", "p", "s", ":", "/", "/", "m", "y", "v", "a", "u", "l", "t", ".", "v", "a", "u", "l", "t", ".", "a", "z", "u", "r", "e", ".", "n", "e", "t">>
URL_PublicSlash == <<"h", "t", "t", "p", "s", ":", "/", "/", "m", "y", "v", "a", "u", "l", "t", ".", "v", "a", "u", "l", "t", ".", "a", "z", "u", "r", "e", ".", "n", "e", "t", "/">>
URL_PublicUpper == <<"h", "t", "t", "p", "s", ":", "/", "/", "M", "y", "V", "a", "u", "l", "t", ".", "V", "a", "u", "l", "t", ".", "A", "z", "u", "r", "e", ".", "N", "E", "T", "/">>
URL_PublicPort == <<"h", "t", "t", "p", "s", ":", "/", "/", "u", "s", "e", "r", "@", "m", "y", "v", "a", "u", "l", "t", ".", "v", "a", "u", "l", "t", ".", "a", "z", "u", "r", "e", ".", "n", "e", "t", ":", "4", "4", "3", "/", "s", "e", "c", "r", "e", "t", "s">>
URL_Example == <<"h", "t", "t", "p", "s", ":", "/", "/", "v", ".", "e", "x", "a", "m", "p", "l", "e", ".", "c", "o", "m">>
URL_DoubleSlash == <<"h", "t", "t", "p", "s", ":", "/", "/", "v", ".", "e", "x", "a", "m", "p", "l", "e", ".", "c", "o", "m", "/", "/">>
URL_TenIp == <<"h", "t", "t", "p", "s", ":", "/", "/", "1", "0", ".", "0", ".", "0", ".", "5", "/">>
URL_TenName == <<"h", "t", "t", "p", "s", ":", "/", "/", "1", "0", ".", "f", "o", "o", ".", "v", "a", "u", "l", "t", ".", "a", "z", "u", "r", "e", ".", "n", "e", "t">>
URL_Hundred == <<"h", "t", "t", "p", "s", ":", "/", "/", "1", "0", "0", ".", "v", "a", "u", "l", "t", ".", "a", "z", "u", "r", "e", ".", "n", "e", "t", "/">>
URL_172Public == <<"h", "t", "t", "p", "s", ":", "/", "/", "1", "7", "2", ".", "2", "1", "7", ".", "1", ".", "1">>
URL_172Name == <<"h", "t", "t", "p", "s", ":", "/", "/", "1", "7", "2", ".", "x", ".", "a", "z", "u", "r", "e", ".", "n", "e", "t", "/">>
URL_192Name == <<"h", "t", "t", "p", "s", ":", "/", "/", "1", "9", "2", ".", "1", "6", "8", ".", "x", ".", "a", "z", "u", "r", "e", ".", "n", "e", "t">>
URL_Localhost == <<"h", "t", "t", "p", "s", ":", "/", "/", "l", "o", "c", "a", "l", "h", "o", "s", "t", ":", "8", "4", "4", "3", "/">>
URL_Loopback == <<"h", "t", "t", "p", "s", ":", "/", "/", "1", "2", "7", ".", "0", ".", "0", ".", "1">>
URL_BareSuffix == <<"h", "t", "t", "p", "s", ":", "/", "/", "a", "z", "u", "r", "e", ".", "n", "e", "t", "/">>
URL_NoDotSuffix == <<"h", "t", "t", "p", "s", ":", "/", "/", "m", "y", "v", "a", "u", "l", "t", "a", "z", "u", "r", "e", ".", "n", "e", "t">>
URL_NoScheme == <<"m", "y", "v", "a", "u", "l", "t", ".", "v", "a", "u", "l", "t", ".", "a", "z", "u", "r", "e", ".", "n", "e", "t">>

\* Endpoints a caller or the environment may supply.
AllUrls ==
    { URL_Public, URL_PublicSlash, URL_PublicUpper, URL_PublicPort, URL_Example,
      URL_DoubleSlash, URL_TenIp, URL_TenName, URL_Hundred, URL_172Public,
      URL_172Name, URL_192Name, URL_Localhost, URL_Loopback, URL_BareSuffix,
      URL_NoDotSuffix, URL_NoScheme }
\* The endpoints used where a run goes on to operate on the store.
FewUrls == { URL_Public, URL_TenIp, URL_NoScheme }
\* Values of DISABLE_SSL_VERIFY (NoneS: not set).
AllToggles == { NoneS, <<>>, S_true, S_TRUE, S_True, S_false, S_one }
FewToggles == { NoneS, S_TRUE, S_false }

\* Secret names; the same strings also serve as secret values.
Tok == { "a", "b" }
\* Secret values: a command-line word or the empty string.
Values == Tok \cup { "" }
\* The order in which the store enumerates its secrets.
NameOrder == << "a", "b" >>

\* Failures the remote client raises, by exception class
\* (azure.core.exceptions): 404, 403 and connection failure.
RNF == "ResourceNotFoundError"
HRE == "HttpResponseError"
SRE == "ServiceRequestError"
\* What the network does to one remote call: nothing, or one of the failures.
Faults == { "none", RNF, HRE, SRE }

\* ------------------------------------------------------------ str methods
StartsWith(s, p) == Len(s) >= Len(p) /\ SubSeq(s, 1, Len(p)) = p
EndsWith(s, p) == Len(s) >= Len(p) /\ SubSeq(s, Len(s) - Len(p) + 1, Len(s)) = p

Upper == << "A", "B", "C", "D", "E", "F", "G", "H", "I", "J", "K", "L", "M",
            "N", "O", "P", "Q", "R", "S", "T", "U", "V", "W", "X", "Y", "Z" >>
LowerOf == << "a", "b", "c", "d", "e", "f", "g", "h", "i", "j", "k", "l", "m",
              "n", "o", "p", "q", "r", "s", "t", "u", "v", "w", "x", "y", "z" >>
LowerChar(c) ==
    IF \E i \in 1..Len(Upper) : Upper[i] = c
    THEN LowerOf[CHOOSE i \in 1..Len(Upper) : Upper[i] = c]
    ELSE c
\* str.lower()
Lower(s) == [i \in 1..Len(s) |-> LowerChar(s[i])]

\* Index of the first character of s that is in cs, 0 when there is none.
FirstIn(s, cs) ==
    IF \E i \in 1..Len(s) : s[i] \in cs
    THEN CHOOSE i \in 1..Len(s) : s[i] \in cs /\ \A j \in 1..(i - 1) : s[j] \notin cs
    ELSE 0
\* Index of the last occurrence of c in s, 0 when there is none.
LastOf(s, c) ==
    IF \E i \in 1..Len(s) : s[i] = c
    THEN CHOOSE i \in 1..Len(s) : s[i] = c /\ \A j \in (i + 1)..Len(s) : s[j] # c
    ELSE 0

\* ------------------------------------------------------------- urlparse
Alpha == { Upper[i] : i \in 1..Len(Upper) } \cup { LowerOf[i] : i \in 1..Len(LowerOf) }
SchemeChars == Alpha \cup { "0", "1", "2", "3", "4", "5", "6", "7", "8", "9", "+", "-", "." }

\* The text before the first of the characters cs (all of it without one).
Before(s, cs) == IF FirstIn(s, cs) = 0 THEN s ELSE SubSeq(s, 1, FirstIn(s, cs) - 1)

\* Whether the text before the colon at index i is a URL scheme.
IsScheme(url, i) ==
    i > 1 /\ url[1] \in Alpha /\ \A j \in 1..(i - 1) : url[j] \in SchemeChars

\* The URL without its "scheme:" prefix.
AfterScheme(url, i) == IF IsScheme(url, i) THEN SubSeq(url, i + 1, Len(url)) ELSE url

\* The netloc of a URL whose scheme is already split off: what follows "//"
\* up to the first of / ? #.
NetlocOf(rest) ==
    IF StartsWith(rest, << "/", "/" >>)
    THEN Before(SubSeq(rest, 3, Len(rest)), { "/", "?", "#" })
    ELSE <<>>

\* urlparse(url).netloc
Netloc(url) == NetlocOf(AfterScheme(url, FirstIn(url, { ":" })))

\* None for the empty host, else the host lowercased.
HostOrNone(h) == IF h = <<>> THEN NoneS ELSE Lower(h)

\* The netloc without its user info.
AfterUserInfo(n) == SubSeq(n, LastOf(n, "@") + 1, Len(n))

\* urlparse(url).hostname: the netloc without user info and port, lowercased;
\* None when that is empty.
Hostname(url) == HostOrNone(Before(AfterUserInfo(Netloc(url)), { ":" }))

\* ------------------------------------------------------------ environment
KEY_URL == "AZURE_KEYVAULT_URL"
KEY_SSL == "DISABLE_SSL_VERIFY"

\* os.getenv(key, default)
getenv(env, key, default) == IF env[key] = NoneS THEN default ELSE env[key]

\* load_dotenv(): keys of the .env file are added to os.environ; a key the
\* process environment already holds keeps its value.
load_dotenv(env, file) ==
    [k \in DOMAIN env |-> IF env[k] # NoneS THEN env[k] ELSE file[k]]

\* ---------------------------------------------------- __init__ resolution
\* vault_url or os.getenv('AZURE_KEYVAULT_URL')
ResolveUrl(arg, env) == IF TruthyS(arg) THEN arg ELSE getenv(env, KEY_URL, NoneS)

\* The override read without lowercasing the toggle.
EnvOverrideCaseSensitive(env) == getenv(env, KEY_SSL, S_false) = S_true
\* os.getenv('DISABLE_SSL_VERIFY', 'false').lower() == 'true'
EnvOverride(env) == Lower(getenv(env, KEY_SSL, S_false)) = S_true

\* The normalisation that appends the separator unconditionally.
NormalizeAlways(url) == url \o S_slash
\* if not self.vault_url.endswith('/'): self.vault_url += '/'
Normalize(url) == IF EndsWith(url, S_slash) THEN url ELSE url \o S_slash

\* ------------------------------------------------------ _create_transport
\* The classification without the '10.' prefix rule.
IsInternalNoTen(h) ==
    \/ StartsWith(h, P_192_168)
    \/ StartsWith(h, P_172)
    \/ h \in { H_localhost, H_loopback }
    \/ ~EndsWith(h, Suffix_azure_net)
\* The classification with the suffix compared without its leading dot.
IsInternalLooseSuffix(h) ==
    \/ StartsWith(h, P_10)
    \/ StartsWith(h, P_192_168)
    \/ StartsWith(h, P_172)
    \/ h \in { H_localhost, H_loopback }
    \/ ~EndsWith(h, SubSeq(Suffix_azure_net, 2, Len(Suffix_azure_net)))
\* is_internal of _create_transport.
IsInternal(h) ==
    \/ StartsWith(h, P_10)
    \/ StartsWith(h, P_192_168)
    \/ StartsWith(h, P_172)
    \/ h \in { H_localhost, H_loopback }
    \/ ~EndsWith(h, Suffix_azure_net)

\* session.verify as _create_transport sets it.
SessionVerify(disable, h) == IF disable \/ IsInternal(h) THEN FALSE ELSE TRUE

\* The lines _create_transport prints.
TransportLog(disable, h) ==
    IF disable \/ IsInternal(h)
    THEN IF IsInternal(h) THEN << "Detected internal Key Vault" >>
                          ELSE << "WARNING: SSL verification is disabled (testing)" >>
    ELSE << "Configured for public Azure Key Vault" >>

\* ---------------------------------------------------------- _get_credential
\* A credential lookup that swallows the failure and hands back no credential.
GetCredentialSwallow(available) == [exc |-> "none"]
\* DefaultAzureCredential() or, when it fails, ValueError with the guidance.
GetCredential(available) ==
    IF available THEN [exc |-> "none"] ELSE [exc |-> "ValueError"]

\* ------------------------------------------------------------------ __init__
\* The client object before __init__ has run: no endpoint, and the default
\* of requests.Session().verify.
NoClient ==
    [constructed |-> FALSE, vault_url |-> NoneS, disable_ssl_verify |-> FALSE,
     session_verify |-> TRUE]

\* The outcome of __init__: the exception raised ("none" when construction
\* succeeds) with its message, the object's fields, os.environ afterwards and
\* the lines printed.
Outcome(exc, msg, obj, environ, log) ==
    [exc |-> exc, msg |-> msg, client |-> obj, environ |-> environ, log |-> log]

\* The lines __init__ prints before it asks for the credential.
InitLog(disable) ==
    << "Connecting to Key Vault" >>
    \o (IF disable THEN << "WARNING: SSL verification is disabled" >> ELSE <<>>)

\* __init__ from self._create_transport() on, h being the parsed host name:
\* None has no startswith.
ConstructTransport(nurl, disable, h, e) ==
    IF h = NoneS
    THEN Outcome("AttributeError", "NoneType has no attribute startswith",
                 NoClient, e, InitLog(disable))
    ELSE Outcome("none", "",
                 [constructed |-> TRUE, vault_url |-> nurl,
                  disable_ssl_verify |-> disable,
                  session_verify |-> SessionVerify(disable, h)],
                 e, InitLog(disable) \o TransportLog(disable, h))

\* __init__ from self._get_credential() on.
ConstructCredential(nurl, disable, cred, e) ==
    IF cred.exc # "none"
    THEN Outcome(cred.exc, "No valid credentials found", NoClient, e,
                 InitLog(disable) \o << "DefaultAzureCredential failed" >>)
    ELSE ConstructTransport(nurl, disable, Hostname(nurl), e)

\* __init__ from the check of self.vault_url on.
ConstructResolved(url, disable, available, e) ==
    IF ~TruthyS(url)
    THEN Outcome("ValueError", "AZURE_KEYVAULT_URL not found", NoClient, e, <<>>)
    ELSE ConstructCredential(Normalize(url), disable, GetCredential(available), e)

\* __init__ after load_dotenv(), e being os.environ.
ConstructLoaded(vault_url, disable_ssl_verify, available, e) ==
    ConstructResolved(ResolveUrl(vault_url, e), disable_ssl_verify \/ EnvOverride(e),
                      available, e)

\* AzureKeyVaultClient(vault_url, disable_ssl_verify) in the process
\* environment env with the .env file `file`.
Construct(vault_url, disable_ssl_verify, env, file, available) ==
    ConstructLoaded(vault_url, disable_ssl_verify, available, load_dotenv(env, file))

\* --------------------------------------------------------- the remote store
\* The names the store holds, in its enumeration order.
Listing(st) == SelectSeq(NameOrder, LAMBDA n : st[n] # None)

\* One remote call as the client issued it and the store answered it.
Call(op, name, exc, val, n) == [op |-> op, name |-> name, exc |-> exc, val |-> val, n |-> n]

\* self.client.get_secret(name): the fault, else 404 for a missing name, else
\* the stored value.
RemoteGet(st, name, fault) ==
    IF fault # "none" THEN Call("get", name, fault, None, 0)
    ELSE IF st[name] = None THEN Call("get", name, RNF, None, 0)
    ELSE Call("get", name, "none", st[name], 0)

\* self.client.set_secret(name, value): the fault, else the store holds value
\* under name.
RemoteSet(st, name, value, fault) ==
    IF fault # "none"
    THEN [call |-> Call("set", name, fault, value, 0), store |-> st]
    ELSE [call |-> Call("set", name, "none", value, 0),
          store |-> [st EXCEPT ![name] = value]]

\* self.client.list_properties_of_secrets(), iterated: the names yielded and
\* the failure that ended the iteration after failAt of them ("none": all
\* names were yielded).
RemoteList(st, fault, failAt) ==
    IF fault = "none"
    THEN [items |-> Listing(st), call |-> Call("list", "", "none", None, Len(Listing(st)))]
    ELSE [items |-> SubSeq(Listing(st), 1, failAt),
          call |-> Call("list", "", fault, None, failAt)]

\* ------------------------------------------------------------- exceptions
\* Only 404 counts as a provider error.
IsAzureErrorOnlyNotFound(exc) == exc = RNF
\* isinstance(e, AzureError): every failure class of the remote client.
IsAzureError(exc) == exc \in { RNF, HRE, SRE }

\* ------------------------------------------------------------------ facade
\* test_connection: True when the whole listing was read, False on any
\* exception.
test_connection(st, fault, failAt) ==
    LET r == RemoteList(st, fault, failAt)
    IN  [ret |-> r.call.exc = "none", exc |-> "none", remote |-> << r.call >>,
         log |-> << "Testing connection..." >>
                 \o (IF r.call.exc = "none"
                     THEN << "Connection successful" >>
                     ELSE << "Connection failed", "Troubleshooting suggestions" >>)]

\* get_secret: secret.value, or None on AzureError; any other exception
\* leaves the method.
get_secret(st, secret_name, fault) ==
    LET r == RemoteGet(st, secret_name, fault)
    IN  IF r.exc = "none"
        THEN [ret |-> r.val, exc |-> "none", remote |-> << r >>, log |-> <<>>]
        ELSE IF IsAzureError(r.exc)
        THEN [ret |-> None, exc |-> "none", remote |-> << r >>,
              log |-> << "Error retrieving secret" >>]
        ELSE [ret |-> None, exc |-> r.exc, remote |-> << r >>, log |-> <<>>]

\* A set_secret that hands the name to the store as the value.
set_secret_swapped(st, secret_name, secret_value, fault) ==
    LET r == RemoteSet(st, secret_name, secret_name, fault)
    IN  [ret |-> r.call.exc = "none", exc |-> "none", remote |-> << r.call >>,
         store |-> r.store, log |-> <<>>]
\* set_secret: True after the store took the value, False on AzureError; any
\* other exception leaves the method.
set_secret(st, secret_name, secret_value, fault) ==
    LET r == RemoteSet(st, secret_name, secret_value, fault)
    IN  IF r.call.exc = "none"
        THEN [ret |-> TRUE, exc |-> "none", remote |-> << r.call >>,
              store |-> r.store, log |-> << "Secret set successfully" >>]
        ELSE IF IsAzureError(r.call.exc)
        THEN [ret |-> FALSE, exc |-> "none", remote |-> << r.call >>,
              store |-> r.store, log |-> << "Error setting secret" >>]
        ELSE [ret |-> FALSE, exc |-> r.call.exc, remote |-> << r.call >>,
              store |-> r.store, log |-> <<>>]

\* A list_secrets that returns the names read before the failure.
list_secrets_partial(st, fault, failAt) ==
    LET r == RemoteList(st, fault, failAt)
    IN  [ret |-> r.items, exc |-> "none", remote |-> << r.call >>,
         log |-> IF r.call.exc = "none" THEN <<>> ELSE << "Error listing secrets" >>]
\* list_secrets: the names appended one by one, or [] on AzureError whatever
\* was appended before; any other exception leaves the method.
list_secrets(st, fault, failAt) ==
    LET r == RemoteList(st, fault, failAt)
    IN  IF r.call.exc = "none"
        THEN [ret |-> r.items, exc |-> "none", remote |-> << r.call >>, log |-> <<>>]
        ELSE IF IsAzureError(r.call.exc)
        THEN [ret |-> <<>>, exc |-> "none", remote |-> << r.call >>,
              log |-> << "Error listing secrets" >>]
        ELSE [ret |-> <<>>, exc |-> r.call.exc, remote |-> << r.call >>, log |-> <<>>]

\* results[key] = value on a dict.
DictSet(d, key, value) ==
    [k \in DOMAIN d \cup { key } |-> IF k = key THEN value ELSE d[k]]

\* The for loop of get_multiple_secrets from element i on; stopOnNone ends
\* the loop at the first name whose get returned None.
RECURSIVE GetMultipleLoop(_, _, _, _, _, _, _)
GetMultipleLoop(st, secret_names, faults, i, results, remote, stopOnNone) ==
    IF i > Len(secret_names)
    THEN [ret |-> results, exc |-> "none", remote |-> remote, log |-> <<>>]
    ELSE LET g == get_secret(st, secret_names[i], faults[i])
         IN  IF g.exc # "none"
             THEN [ret |-> results, exc |-> g.exc, remote |-> remote \o g.remote,
                   log |-> <<>>]
             ELSE IF stopOnNone /\ g.ret = None
             THEN [ret |-> results, exc |-> "none", remote |-> remote \o g.remote,
                   log |-> <<>>]
             ELSE GetMultipleLoop(st, secret_names, faults, i + 1,
                                  DictSet(results, secret_names[i], g.ret),
                                  remote \o g.remote, stopOnNone)

\* A get_multiple_secrets that gives up at the first name it cannot read.
get_multiple_secrets_stop(st, secret_names, faults) ==
    GetMultipleLoop(st, secret_names, faults, 1, <<>>, <<>>, TRUE)
\* get_multiple_secrets: one get_secret per element, in order, into a dict.
get_multiple_secrets(st, secret_names, faults) ==
    GetMultipleLoop(st, secret_names, faults, 1, <<>>, <<>>, FALSE)

\* ------------------------------------------------------------------- state
VARIABLES
    mode,           \* "cli": python keyvault_client.py ...; "lib": a caller of the class
    sys_argv,       \* the command line: [has_cmd, cmd, rest]
    os_environ,     \* the process environment, key -> text or NoneS
    dotenv,         \* the .env file, key -> text or NoneS
    init_args,      \* the arguments __init__ receives: [vault_url, disable_ssl_verify]
    cred_available, \* whether DefaultAzureCredential() can be built
    pc,             \* "start", "ready" (client built), "done" (left main / raised)
    client,         \* the AzureKeyVaultClient object
    store,          \* the remote vault: name -> value or None
    issued,         \* whether a remote store call was issued in this run
    last,           \* the latest facade call: its arguments, result and remote calls
    written,        \* name -> the value of this client's last set_secret that
                    \* returned True, None once another client wrote the name
    exit_code,      \* the process exit status once pc = "done" in mode "cli"
    stdout,         \* the lines printed by the latest step
    ops_left,       \* facade calls the library caller still makes
    ext_left        \* writes other clients still make

vars == << mode, sys_argv, os_environ, dotenv, init_args, cred_available, pc,
           client, store, issued, last, written, exit_code, stdout, ops_left,
           ext_left >>

\* len(sys.argv)
ArgvLen(argv) == IF argv.has_cmd THEN 2 + Len(argv.rest) ELSE 1

\* Sequences over S of length at most n.
SeqUpTo(S, n) == UNION { [1..k -> S] : k \in 0..n }

NoCall == [op |-> "none", name |-> "", value |-> "", names |-> <<>>,
           ret |-> None, exc |-> "none", remote |-> <<>>]

Commands == { C_test, << "T", "E", "S", "T" >>, C_get, C_set, C_list, C_get_multiple,
              << "b", "o", "g", "u", "s" >> }

ArgvSet ==
    { [has_cmd |-> FALSE, cmd |-> <<>>, rest |-> <<>>] }
    \cup { [has_cmd |-> TRUE, cmd |-> c, rest |-> r] :
             c \in Commands, r \in SeqUpTo(Tok, MaxArgs) }

NoEnv == [k \in { KEY_URL, KEY_SSL } |-> NoneS]
Env(url, toggle) == [k \in { KEY_URL, KEY_SSL } |-> IF k = KEY_URL THEN url ELSE toggle]

EmptyStore == [n \in Tok |-> None]
InitStores == { EmptyStore, [EmptyStore EXCEPT !["a"] = "b"],
                [n \in Tok |-> IF n = "a" THEN "" ELSE "a"] }

NoArgv == [has_cmd |-> FALSE, cmd |-> <<>>, rest |-> <<>>]

\* Command-line runs over the configurations: the endpoint and the toggle
\* come from the environment or the .env file, the credential may be missing.
InitCliConfig ==
    /\ mode = "cli"
    /\ sys_argv \in { [has_cmd |-> TRUE, cmd |-> C_test, rest |-> <<>>],
                      [has_cmd |-> TRUE, cmd |-> C_get, rest |-> << "a" >>] }
    /\ os_environ \in { Env(u, t) : u \in { NoneS, <<>> } \cup FewUrls, t \in FewToggles }
    /\ dotenv \in { NoEnv, Env(URL_Example, S_true) }
    /\ init_args = [vault_url |-> NoneS, disable_ssl_verify |-> FALSE]
    /\ cred_available \in BOOLEAN
    /\ store = [EmptyStore EXCEPT !["a"] = "b"]
    /\ ops_left = 0
    /\ ext_left = 0

\* Command-line runs over the command lines, against a configured vault.
InitCliOps ==
    /\ mode = "cli"
    /\ sys_argv \in ArgvSet
    /\ os_environ = Env(URL_Public, NoneS)
    /\ dotenv = NoEnv
    /\ init_args = [vault_url |-> NoneS, disable_ssl_verify |-> FALSE]
    /\ cred_available = TRUE
    /\ store \in InitStores
    /\ ops_left = 0
    /\ ext_left = MaxExt

\* A caller that only builds the client, over every endpoint and toggle.
InitLibConstruct ==
    /\ mode = "lib"
    /\ sys_argv = NoArgv
    /\ os_environ \in { Env(u, t) : u \in { NoneS, URL_Localhost }, t \in AllToggles }
    /\ dotenv = NoEnv
    /\ init_args \in [vault_url : { NoneS, <<>> } \cup AllUrls, disable_ssl_verify : BOOLEAN]
    /\ cred_available \in BOOLEAN
    /\ store = EmptyStore
    /\ ops_left = 0
    /\ ext_left = 0

\* A caller that builds the client and then calls the facade.
InitLibOps ==
    /\ mode = "lib"
    /\ sys_argv = NoArgv
    /\ os_environ = NoEnv
    /\ dotenv = NoEnv
    /\ init_args = [vault_url |-> URL_Public, disable_ssl_verify |-> FALSE]
    /\ cred_available = TRUE
    /\ store \in { EmptyStore, [n \in Tok |-> IF n = "a" THEN "" ELSE "a"] }
    /\ ops_left = MaxOps
    /\ ext_left = MaxExt

Init ==
    /\ (InitCliConfig \/ InitCliOps \/ InitLibConstruct \/ InitLibOps)
    /\ pc = "start"
    /\ client = NoClient
    /\ issued = FALSE
    /\ last = NoCall
    /\ written = [n \in Tok |-> None]
    /\ exit_code = 0
    /\ stdout = <<>>

Inputs == << mode, sys_argv, dotenv, cred_available >>

\* ------------------------------------------------------------------- main()
\* The exit status of the except clause of main (sys.exit(1)).
ExceptExit(exc) == IF exc = "none" THEN 0 ELSE 1

\* if len(sys.argv) < 2: print the usage and exit 1.
MainUsage ==
    /\ mode = "cli" /\ pc = "start"
    /\ ArgvLen(sys_argv) < 2
    /\ pc' = "done"
    /\ exit_code' = 1
    /\ stdout' = << "Usage:" >>
    /\ UNCHANGED << Inputs, os_environ, init_args, client, store, issued, last,
                    written, ops_left, ext_left >>

\* What main does with the outcome c of the constructor call: go on, or let
\* the except clause print the exception and exit.
MainConstructed(c, disable_ssl) ==
    /\ init_args' = [vault_url |-> NoneS, disable_ssl_verify |-> disable_ssl]
    /\ os_environ' = c.environ
    /\ client' = c.client
    /\ IF c.exc = "none"
       THEN /\ pc' = "ready"
            /\ stdout' = c.log
            /\ exit_code' = exit_code
       ELSE /\ pc' = "done"
            /\ stdout' = c.log \o << "Error:", c.msg >>
            /\ exit_code' = ExceptExit(c.exc)

\* The toggle as main reads it, then the constructor call.
MainConstructWith(disable_ssl) ==
    MainConstructed(Construct(NoneS, disable_ssl, os_environ, dotenv, cred_available),
                    disable_ssl)

\* The first statements of the try block: read the toggle, build the client.
MainConstruct ==
    /\ mode = "cli" /\ pc = "start"
    /\ ArgvLen(sys_argv) >= 2
    /\ MainConstructWith(EnvOverride(os_environ))
    /\ UNCHANGED << Inputs, store, issued, last, written, ops_left, ext_left >>

\* sys.argv[1].lower()
Command == Lower(sys_argv.cmd)

\* How main ends after a facade call r: status 1 through the except clause if
\* the call raised, else the status and the lines the branch chose.
MainEnd(r, status, lines) ==
    /\ pc' = "done"
    /\ issued' = (issued \/ Len(r.remote) > 0)
    /\ IF r.exc = "none"
       THEN /\ exit_code' = status
            /\ stdout' = r.log \o lines
       ELSE /\ exit_code' = ExceptExit(r.exc)
            /\ stdout' = r.log \o << "Error:", r.exc >>
    /\ UNCHANGED << Inputs, os_environ, init_args, client, ops_left, ext_left >>

\* command == "test": the result of test_connection is not looked at.
MainTest ==
    /\ mode = "cli" /\ pc = "ready"
    /\ Command = C_test
    /\ \E fault \in Faults, failAt \in 0..Len(Listing(store)) :
         LET r == test_connection(store, fault, failAt)
         IN  /\ last' = [NoCall EXCEPT !.op = "test", !.ret = r.ret, !.exc = r.exc,
                                       !.remote = r.remote]
             /\ MainEnd(r, 0, <<>>)
    /\ UNCHANGED << store, written >>

\* command == "get" and len(sys.argv) >= 3
MainGet ==
    /\ mode = "cli" /\ pc = "ready"
    /\ Command = C_get /\ ArgvLen(sys_argv) >= 3
    /\ \E fault \in Faults :
         LET secret_name == sys_argv.rest[1]
             r == get_secret(store, secret_name, fault)
         IN  /\ last' = [NoCall EXCEPT !.op = "get", !.name = secret_name,
                                       !.ret = r.ret, !.exc = r.exc, !.remote = r.remote]
             /\ MainEnd(r, 0, IF Truthy(r.ret) THEN << "name: value" >>
                                               ELSE << "not found or error occurred" >>)
    /\ UNCHANGED << store, written >>

\* command == "set" and len(sys.argv) >= 4: exit 1 unless set_secret succeeded.
MainSet ==
    /\ mode = "cli" /\ pc = "ready"
    /\ Command = C_set /\ ArgvLen(sys_argv) >= 4
    /\ \E fault \in Faults :
         LET secret_name == sys_argv.rest[1]
             secret_value == sys_argv.rest[2]
             r == set_secret(store, secret_name, secret_value, fault)
         IN  /\ last' = [NoCall EXCEPT !.op = "set", !.name = secret_name,
                                       !.value = secret_value, !.ret = r.ret,
                                       !.exc = r.exc, !.remote = r.remote]
             /\ store' = r.store
             /\ written' = IF r.exc = "none" /\ r.ret
                           THEN [written EXCEPT ![secret_name] = secret_value]
                           ELSE written
             /\ MainEnd(r, IF r.ret THEN 0 ELSE 1, <<>>)

\* command == "list"
MainList ==
    /\ mode = "cli" /\ pc = "ready"
    /\ Command = C_list
    /\ \E fault \in Faults, failAt \in 0..Len(Listing(store)) :
         LET r == list_secrets(store, fault, failAt)
         IN  /\ last' = [NoCall EXCEPT !.op = "list", !.ret = r.ret, !.exc = r.exc,
                                       !.remote = r.remote]
             /\ MainEnd(r, 0, IF r.ret # <<>> THEN << "Available secrets:" >>
                                              ELSE << "No secrets found or error occurred" >>)
    /\ UNCHANGED << store, written >>

\* command == "get-multiple" and len(sys.argv) >= 3
MainGetMultiple ==
    /\ mode = "cli" /\ pc = "ready"
    /\ Command = C_get_multiple /\ ArgvLen(sys_argv) >= 3
    /\ \E faults \in [1..Len(sys_argv.rest) -> Faults] :
         LET secret_names == sys_argv.rest
             r == get_multiple_secrets(store, secret_names, faults)
         IN  /\ last' = [NoCall EXCEPT !.op = "get_multiple", !.names = secret_names,
                                       !.ret = r.ret, !.exc = r.exc, !.remote = r.remote]
             /\ MainEnd(r, 0, << "name: value or [NOT FOUND], per name" >>)
    /\ UNCHANGED << store, written >>

\* else: print("Invalid command or missing arguments"); sys.exit(1)
MainInvalid ==
    /\ mode = "cli" /\ pc = "ready"
    /\ ~ (Command = C_test)
    /\ ~ (Command = C_get /\ ArgvLen(sys_argv) >= 3)
    /\ ~ (Command = C_set /\ ArgvLen(sys_argv) >= 4)
    /\ ~ (Command = C_list)
    /\ ~ (Command = C_get_multiple /\ ArgvLen(sys_argv) >= 3)
    /\ pc' = "done"
    /\ exit_code' = 1
    /\ stdout' = << "Invalid command or missing arguments" >>
    /\ UNCHANGED << Inputs, os_environ, init_args, client, store, issued, last,
                    written, ops_left, ext_left >>

\* ------------------------------------------------------- a library caller
\* What the caller sees of the outcome c of the constructor call.
LibConstructed(c) ==
    /\ os_environ' = c.environ
    /\ client' = c.client
    /\ pc' = IF c.exc = "none" THEN "ready" ELSE "done"
    /\ stdout' = c.log
    /\ last' = [NoCall EXCEPT !.op = "init", !.exc = c.exc]

\* client = AzureKeyVaultClient(vault_url, disable_ssl_verify); an exception
\* reaches the caller.
LibConstruct ==
    /\ mode = "lib" /\ pc = "start"
    /\ LibConstructed(Construct(init_args.vault_url, init_args.disable_ssl_verify,
                                os_environ, dotenv, cred_available))
    /\ UNCHANGED << Inputs, init_args, store, issued, written, exit_code, ops_left,
                    ext_left >>

\* What every facade call of the library caller does to the bookkeeping; an
\* exception that leaves the facade ends the caller.
LibEnd(r) ==
    /\ pc' = IF r.exc = "none" THEN "ready" ELSE "done"
    /\ issued' = (issued \/ Len(r.remote) > 0)
    /\ stdout' = r.log
    /\ ops_left' = ops_left - 1
    /\ UNCHANGED << Inputs, os_environ, init_args, client, exit_code, ext_left >>

LibReady == mode = "lib" /\ pc = "ready" /\ ops_left > 0

\* client.test_connection()
LibTest ==
    /\ LibReady
    /\ \E fault \in Faults, failAt \in 0..Len(Listing(store)) :
         LET r == test_connection(store, fault, failAt)
         IN  /\ last' = [NoCall EXCEPT !.op = "test", !.ret = r.ret, !.exc = r.exc,
                                       !.remote = r.remote]
             /\ LibEnd(r)
    /\ UNCHANGED << store, written >>

\* client.get_secret(secret_name)
LibGet ==
    /\ LibReady
    /\ \E secret_name \in Tok, fault \in Faults :
         LET r == get_secret(store, secret_name, fault)
         IN  /\ last' = [NoCall EXCEPT !.op = "get", !.name = secret_name,
                                       !.ret = r.ret, !.exc = r.exc, !.remote = r.remote]
             /\ LibEnd(r)
    /\ UNCHANGED << store, written >>

\* client.set_secret(secret_name, secret_value)
LibSet ==
    /\ LibReady
    /\ \E secret_name \in Tok, secret_value \in Values, fault \in Faults :
         LET r == set_secret(store, secret_name, secret_value, fault)
         IN  /\ last' = [NoCall EXCEPT !.op = "set", !.name = secret_name,
                                       !.value = secret_value, !.ret = r.ret,
                                       !.exc = r.exc, !.remote = r.remote]
             /\ store' = r.store
             /\ written' = IF r.exc = "none" /\ r.ret
                           THEN [written EXCEPT ![secret_name] = secret_value]
                           ELSE written
             /\ LibEnd(r)

\* client.list_secrets()
LibList ==
    /\ LibReady
    /\ \E fault \in Faults, failAt \in 0..Len(Listing(store)) :
         LET r == list_secrets(store, fault, failAt)
         IN  /\ last' = [NoCall EXCEPT !.op = "list", !.ret = r.ret, !.exc = r.exc,
                                       !.remote = r.remote]
             /\ LibEnd(r)
    /\ UNCHANGED << store, written >>

\* client.get_multiple_secrets(secret_names)
LibGetMultiple ==
    /\ LibReady
    /\ \E secret_names \in SeqUpTo(Tok, MaxNames) :
         \E faults \in [1..Len(secret_names) -> Faults] :
           LET r == get_multiple_secrets(store, secret_names, faults)
           IN  /\ last' = [NoCall EXCEPT !.op = "get_multiple", !.names = secret_names,
                                         !.ret = r.ret, !.exc = r.exc,
                                         !.remote = r.remote]
               /\ LibEnd(r)
    /\ UNCHANGED << store, written >>

\* ------------------------------------------------------------ other clients
\* Another client of the same vault stores or deletes a secret after this
\* client was built and before a call of its own.
ExternalWrite ==
    /\ pc = "ready"
    /\ ext_left > 0
    /\ \E n \in Tok, v \in Values \cup { None } :
         /\ store' = [store EXCEPT ![n] = v]
         /\ written' = [written EXCEPT ![n] = None]
    /\ ext_left' = ext_left - 1
    /\ UNCHANGED << Inputs, os_environ, init_args, pc, client, issued, last,
                    exit_code, stdout, ops_left >>

Next ==
    \/ MainUsage
    \/ MainConstruct
    \/ MainTest
    \/ MainGet
    \/ MainSet
    \/ MainList
    \/ MainGetMultiple
    \/ MainInvalid
    \/ LibConstruct
    \/ LibTest
    \/ LibGet
    \/ LibSet
    \/ LibList
    \/ LibGetMultiple
    \/ ExternalWrite

Spec == Init /\ [][Next]_vars

\* ------------------------------------------------------------------ claims
\* The endpoint __init__ starts from: the argument, else the environment
\* with the .env file loaded.
InputUrl ==
    IF TruthyS(init_args.vault_url) THEN init_args.vault_url
    ELSE load_dotenv(os_environ, dotenv)[KEY_URL]
\* The environment toggle spells "true" in any letter case.
ToggleOn ==
    \E t \in { S_true, S_TRUE, S_True } : load_dotenv(os_environ, dotenv)[KEY_SSL] = t
\* The override is on: the constructor flag or the environment toggle.
OverrideOn == init_args.disable_ssl_verify \/ ToggleOn
\* The host name of the built client.
Host == Hostname(client.vault_url)
\* The host matches a private-prefix or loopback rule.
PrivateOrLoopback(h) ==
    \/ StartsWith(h, << "1", "0", "." >>)
    \/ StartsWith(h, << "1", "9", "2", ".", "1", "6", "8", "." >>)
    \/ StartsWith(h, << "1", "7", "2", "." >>)
    \/ h = H_localhost
    \/ h = H_loopback
\* The command-line run is over.
CliDone == mode = "cli" /\ pc = "done"
\* The only remote call of the latest facade call.
Remote1 == last.remote[1]

\* The requested operation of a finished command-line run did not succeed.
C1_OperationFailed ==
    \/ ~client.constructed
    \/ last.op = "none"
    \/ last.exc # "none"
    \/ last.op = "test" /\ last.ret = FALSE
    \/ last.op = "get" /\ last.ret = None
    \/ last.op = "set" /\ last.ret = FALSE
    \/ last.op = "list" /\ Remote1.exc # "none"
    \/ last.op = "get_multiple" /\ \E n \in DOMAIN last.ret : last.ret[n] = None
\* C1: every command-line run exits with 0 when the requested operation
\* succeeded and with 1 on a usage error or when the operation failed (the
\* facade returned False / None / [] because of an error, or test_connection
\* returned False).
C1_ExitCodeContract ==
    CliDone => exit_code = (IF C1_OperationFailed THEN 1 ELSE 0)

\* C2: for every host name that begins with 10., 192.168. or 172., or that is
\* localhost or 127.0.0.1, the built client uses Relaxed TLS
\* (session.verify = False), whatever the override and the host's suffix.
C2_PrivateHostsRelaxed ==
    (client.constructed /\ PrivateOrLoopback(Host)) => client.session_verify = FALSE
C2_Witness ==
    /\ client.constructed
    /\ ~OverrideOn
    /\ Host = << "1", "0", ".", "f", "o", "o", ".", "v", "a", "u", "l", "t", ".",
                 "a", "z", "u", "r", "e", ".", "n", "e", "t" >>
    /\ client.session_verify = FALSE

\* C3: with no override, the built client is Strict (session.verify = True)
\* exactly when the host name ends with .azure.net and matches no
\* private-prefix or loopback rule; myvault.vault.azure.net is Strict.
C3_StrictIffPublicSuffix ==
    (client.constructed /\ ~OverrideOn) =>
        /\ client.session_verify = TRUE
             <=> (EndsWith(Host, Suffix_azure_net) /\ ~PrivateOrLoopback(Host))
        /\ Host = H_myvault => client.session_verify = TRUE
C3_Witness ==
    /\ client.constructed
    /\ ~OverrideOn
    /\ Host = H_myvault
    /\ client.session_verify = TRUE

\* C4: whenever the override is on (the constructor flag, or the environment
\* toggle spelling "true" in any letter case) the built client is Relaxed
\* for every host name.
C4_OverrideForcesRelaxed ==
    (client.constructed /\ OverrideOn) => client.session_verify = FALSE
C4_Witness ==
    /\ client.constructed
    /\ ~init_args.disable_ssl_verify
    /\ os_environ[KEY_SSL] = S_TRUE
    /\ Host = H_myvault
    /\ client.session_verify = FALSE

\* C5: every failure of the remote call of get_secret and set_secret
\* (not found, forbidden, unreachable) stays inside the facade: get_secret
\* returns None and set_secret False, whatever the cause, no exception
\* leaves the method, and set_secret returns True only when the store
\* confirmed the write.
C5_FailuresCollapse ==
    /\ last.op = "get" =>
         /\ last.exc = "none"
         /\ Remote1.exc # "none" => last.ret = None
         /\ Remote1.exc = "none" => last.ret = Remote1.val
    /\ last.op = "set" =>
         /\ last.exc = "none"
         /\ last.ret = (Remote1.exc = "none")
C5_Witness ==
    /\ last.op = "set"
    /\ Remote1.exc = HRE
    /\ last.exc = "none"
    /\ last.ret = FALSE

\* C6: list_secrets returns [] when the store holds no secret and when the
\* enumeration fails, also after some names were read; it never returns a
\* partial list and never raises.
C6_ListEmptyOnFailure ==
    last.op = "list" =>
        /\ last.exc = "none"
        /\ Remote1.exc # "none" => last.ret = <<>>
        /\ (Remote1.exc = "none" /\ Remote1.n = 0) => last.ret = <<>>
        /\ Remote1.exc = "none" => Len(last.ret) = Remote1.n
C6_Witness ==
    /\ last.op = "list"
    /\ Remote1.exc = SRE
    /\ Remote1.n >= 1
    /\ last.ret = <<>>

\* The run has a command but no endpoint or no credential.
C7_Unconfigured ==
    /\ ArgvLen(sys_argv) >= 2
    /\ ~TruthyS(InputUrl) \/ ~cred_available
\* C7: a command-line run whose endpoint cannot be resolved or whose
\* credential cannot be obtained issues no remote store call at any point,
\* and ends with exit code 1, a printed error and no client.
C7_ConfigurationErrorIsFatal ==
    (mode = "cli" /\ C7_Unconfigured) =>
        /\ ~issued
        /\ ~client.constructed
        /\ pc # "ready"
        /\ pc = "done" =>
             /\ exit_code = 1
             /\ \E i \in 1..Len(stdout) : stdout[i] = "Error:"
C7_Witness ==
    /\ CliDone
    /\ ArgvLen(sys_argv) >= 2
    /\ cred_available
    /\ os_environ[KEY_URL] = <<>>
    /\ exit_code = 1
    /\ ~issued

\* The input with one trailing separator when it had none.
C8_EndpointOf(input) ==
    IF input[Len(input)] = "/" THEN input ELSE input \o << "/" >>
\* C8: the endpoint of a built client is the input with one '/' appended when
\* the input did not end with '/', and the input itself when it did; the
\* endpoint and the trust decision never change once the client is built.
C8_EndpointNormalizedAndFixed ==
    /\ [](client.constructed =>
            /\ client.vault_url # <<>>
            /\ client.vault_url = C8_EndpointOf(InputUrl))
    /\ [][client.constructed => client' = client]_vars
C8_Witness ==
    /\ client.constructed
    /\ init_args.vault_url = URL_Public
    /\ client.vault_url = URL_PublicSlash
    /\ last.op = "set"
    /\ ops_left = 0

\* What the i-th get of the latest get_multiple_secrets returned.
C9_ReturnOfGet(i) == IF last.remote[i].exc = "none" THEN last.remote[i].val ELSE None
\* The position of the last occurrence of name n in the requested list.
C9_LastIndexOf(n) ==
    CHOOSE i \in 1..Len(last.names) :
        last.names[i] = n /\ \A j \in (i + 1)..Len(last.names) : last.names[j] # n
\* C9: get_multiple_secrets issues one get per element of the list, in the
\* order of the list, and returns a mapping whose keys are exactly the
\* requested names, each mapped to what its (last) get returned; a failure
\* for one name neither ends the loop nor touches another name's result.
C9_OneGetPerName ==
    last.op = "get_multiple" =>
        /\ last.exc = "none"
        /\ Len(last.remote) = Len(last.names)
        /\ \A i \in 1..Len(last.names) :
             last.remote[i].op = "get" /\ last.remote[i].name = last.names[i]
        /\ DOMAIN last.ret = { last.names[i] : i \in 1..Len(last.names) }
        /\ \A n \in DOMAIN last.ret : last.ret[n] = C9_ReturnOfGet(C9_LastIndexOf(n))
C9_Witness ==
    /\ last.op = "get_multiple"
    /\ last.names = << "a", "b" >>
    /\ last.remote[1].exc = HRE
    /\ last.remote[2].exc = "none"
    /\ last.ret["a"] = None
    /\ last.ret["b"] = "a"

\* C10: a get_secret(k) that the store answers returns exactly the value v of
\* the latest set_secret(k, v) that returned True, when no other client wrote
\* k in between.
C10_GetAfterSet ==
    (last.op = "get" /\ Remote1.exc = "none" /\ written[last.name] # None)
        => last.ret = written[last.name]
C10_Witness ==
    /\ last.op = "get"
    /\ Remote1.exc = "none"
    /\ last.name = "a"
    /\ written["a"] = ""
    /\ last.ret = ""
====
